---------------------------- MODULE Spec2Model ----------------------------
(***************************************************************************)
(* Model of src/src/index.js, the run function of the                      *)
(* create-deployment-matrix action: input validation, command              *)
(* construction, subprocess execution, tolerant JSON decoding and the      *)
(* publication of the result (action output, failure signal, job summary). *)
(*                                                                         *)
(* Text is modelled as a sequence of one-character strings, so trimming,   *)
(* JSON.parse and JSON.stringify are computed character by character.      *)
(***************************************************************************)
EXTENDS Integers, Sequences, FiniteSets, TLC

(***************************************************************************)
(* Characters                                                              *)
(***************************************************************************)
DQ == "\""
BS == "\\"

\* Printable ASCII, code 32 (space) to code 126 (~), in code order.
Ascii ==
  <<" ", "!", "\"", "#", "$", "%", "&", "'", "(", ")", "*", "+",
    ",", "-", ".", "/", "0", "1", "2", "3", "4", "5", "6", "7",
    "8", "9", ":", ";", "<", "=", ">", "?", "@", "A", "B", "C",
    "D", "E", "F", "G", "H", "I", "J", "K", "L", "M", "N", "O",
    "P", "Q", "R", "S", "T", "U", "V", "W", "X", "Y", "Z", "[",
    "\\", "]", "^", "_", "u96", "a", "b", "c", "d", "e", "f", "g",
    "h", "i", "j", "k", "l", "m", "n", "o", "p", "q", "r", "s",
    "t", "u", "v", "w", "x", "y", "z", "{", "|", "}", "~">>

\* The character with UTF-16 code unit c.  A code unit outside printable
\* ASCII and the four escapes TLA+ can write is the token "u<c>", as is the
\* grave accent (code 96), which a TLA+ string cannot hold.
CharOfCode(c) ==
  IF c >= 32 /\ c <= 126 THEN Ascii[c - 31]
  ELSE IF c = 9 THEN "\t"
  ELSE IF c = 10 THEN "\n"
  ELSE IF c = 12 THEN "\f"
  ELSE IF c = 13 THEN "\r"
  ELSE "u" \o ToString(c)

\* U+0000..U+001F: not allowed raw inside a JSON string, escaped by stringify.
ControlChars == {CharOfCode(c) : c \in 0..31}

\* The code of a control character.
ControlCode(ch) == CHOOSE c \in 0..31 : CharOfCode(c) = ch

\* UTF-16 surrogates, U+D800..U+DFFF (tokens "u55296".."u57343").
IsSurrogate(ch) ==
  /\ ch \notin ControlChars
  /\ Len(ch) = 6
  /\ \E c \in 55296..57343 : ch = CharOfCode(c)

SurrogateCode(ch) == CHOOSE c \in 55296..57343 : ch = CharOfCode(c)

DigitSeq == <<"0", "1", "2", "3", "4", "5", "6", "7", "8", "9">>
Digits == {DigitSeq[i] : i \in 1..10}
DigitVal(ch) == (CHOOSE i \in 1..10 : DigitSeq[i] = ch) - 1

HexLower == <<"0", "1", "2", "3", "4", "5", "6", "7", "8", "9",
              "a", "b", "c", "d", "e", "f">>
HexUpper == <<"0", "1", "2", "3", "4", "5", "6", "7", "8", "9",
              "A", "B", "C", "D", "E", "F">>
HexDigits == {HexLower[i] : i \in 1..16} \cup {HexUpper[i] : i \in 1..16}
HexVal(ch) == (CHOOSE i \in 1..16 : HexLower[i] = ch \/ HexUpper[i] = ch) - 1

\* White space String.prototype.trim removes (the part TLA+ can write).
TrimWhite == {" ", "\t", "\n", "\r", "\f"}
\* White space the JSON grammar allows between tokens.
JsonWhite == {" ", "\t", "\n", "\r"}

(***************************************************************************)
(* String.prototype.trim                                                   *)
(***************************************************************************)
RECURSIVE TrimStart(_)
TrimStart(s) ==
  IF s # <<>> /\ Head(s) \in TrimWhite THEN TrimStart(Tail(s)) ELSE s

RECURSIVE TrimEnd(_)
TrimEnd(s) ==
  IF s # <<>> /\ s[Len(s)] \in TrimWhite
  THEN TrimEnd(SubSeq(s, 1, Len(s) - 1))
  ELSE s

Trim(s) == TrimEnd(TrimStart(s))

(***************************************************************************)
(* JSON values                                                             *)
(***************************************************************************)
JNull == [t |-> "null", v |-> <<>>]
JBool(b) == [t |-> "bool", v |-> b]
JStr(s) == [t |-> "str", v |-> s]
JArr(xs) == [t |-> "arr", v |-> xs]
\* An object is its own properties in the order JavaScript enumerates them,
\* each a pair <<key, value>>.
JObj(ms) == [t |-> "obj", v |-> ms]
\* A finite non-zero number is its shortest decimal digits d (no leading or
\* trailing zero) and the exponent n with value 0.d * 10^n; zero has no
\* digits.  neg keeps the sign, also of negative zero.
JNum(neg, d, n) ==
  [t |-> "num", v |-> [inf |-> FALSE, neg |-> neg, d |-> d, n |-> n]]
JInf(neg) ==
  [t |-> "num", v |-> [inf |-> TRUE, neg |-> neg, d |-> <<>>, n |-> 0]]

(***************************************************************************)
(* JSON.parse: numbers.  A literal is -? int frac? exp?; its value is the  *)
(* IEEE-754 double nearest to it.  With at most 15 significant digits a    *)
(* normal double prints back as the same digits, so the value is kept as   *)
(* those digits; what is modelled of the double format is its range.  (A   *)
(* subnormal, n from -323 to -307, has fewer digits; it is kept as written *)
(* too, and no input of the model is one.)                                 *)
(***************************************************************************)
\* Largest n with a finite double 0.d * 10^n (DBL_MAX = 1.797...e308).
MaxDecExp == 309
\* The first 15 digits of DBL_MAX, 1.7976931348623157e308.
MaxDigits ==
  <<"1", "7", "9", "7", "6", "9", "3", "1", "3", "4", "8", "6", "2", "3", "1">>
\* Below 0.d * 10^MinDecExp every literal rounds to zero (the least
\* subnormal is 4.94e-324).
MinDecExp == -323

\* The position after the run of digits that starts at i.
RECURSIVE DigitRun(_, _)
DigitRun(s, i) ==
  IF i <= Len(s) /\ s[i] \in Digits THEN DigitRun(s, i + 1) ELSE i

RECURSIVE StripLeadingZeros(_)
StripLeadingZeros(d) ==
  IF d # <<>> /\ Head(d) = "0" THEN StripLeadingZeros(Tail(d)) ELSE d

RECURSIVE StripTrailingZeros(_)
StripTrailingZeros(d) ==
  IF d # <<>> /\ d[Len(d)] = "0"
  THEN StripTrailingZeros(SubSeq(d, 1, Len(d) - 1))
  ELSE d

\* The value of an exponent's digits, saturated: past a few thousand the
\* double is infinite or zero whatever the rest is.
RECURSIVE ExpValue(_, _)
ExpValue(d, acc) ==
  IF d = <<>> THEN acc
  ELSE ExpValue(Tail(d), IF acc > 99999 THEN acc ELSE acc * 10 + DigitVal(Head(d)))

\* Whether digits a, read as the fraction 0.a, exceed 0.b.
RECURSIVE DigitsGreater(_, _)
DigitsGreater(a, b) ==
  IF a = <<>> THEN FALSE
  ELSE IF b = <<>> THEN TRUE
  ELSE IF DigitVal(Head(a)) # DigitVal(Head(b))
       THEN DigitVal(Head(a)) > DigitVal(Head(b))
       ELSE DigitsGreater(Tail(a), Tail(b))

\* The double for sign neg, digit string digits and decimal exponent exp10
\* (the literal is digits * 10^exp10).
MakeNumber(neg, digits, exp10) ==
  LET lead == StripLeadingZeros(digits)
      d    == StripTrailingZeros(lead)
      n    == Len(lead) + exp10
  IN IF d = <<>> THEN JNum(neg, <<>>, 0)
     ELSE IF n > MaxDecExp \/ (n = MaxDecExp /\ DigitsGreater(d, MaxDigits))
          THEN JInf(neg)
     ELSE IF n < MinDecExp THEN JNum(neg, <<>>, 0)
     ELSE JNum(neg, d, n)

ParseFail == [ok |-> FALSE, val |-> JNull, pos |-> 0]
ParseOk(val, pos) == [ok |-> TRUE, val |-> val, pos |-> pos]

ParseNumber(s, i) ==
  LET neg  == i <= Len(s) /\ s[i] = "-"
      i0   == IF neg THEN i + 1 ELSE i
      \* int: a single 0, or a run of digits that does not start with 0
      i1   == IF i0 <= Len(s) /\ s[i0] = "0" THEN i0 + 1 ELSE DigitRun(s, i0)
      frac == i1 <= Len(s) /\ s[i1] = "."
      i2   == IF frac THEN DigitRun(s, i1 + 1) ELSE i1
      exp  == i2 <= Len(s) /\ s[i2] \in {"e", "E"}
      sgn  == exp /\ i2 + 1 <= Len(s) /\ s[i2 + 1] \in {"+", "-"}
      e0   == IF sgn THEN i2 + 2 ELSE i2 + 1
      i3   == IF exp THEN DigitRun(s, e0) ELSE i2
      fracDigits == IF frac THEN SubSeq(s, i1 + 1, i2 - 1) ELSE <<>>
      expAbs == IF exp THEN ExpValue(SubSeq(s, e0, i3 - 1), 0) ELSE 0
      expVal == IF sgn /\ s[i2 + 1] = "-" THEN 0 - expAbs ELSE expAbs
  IN IF i1 = i0 THEN ParseFail
     ELSE IF frac /\ i2 = i1 + 1 THEN ParseFail
     ELSE IF exp /\ i3 = e0 THEN ParseFail
     ELSE ParseOk(MakeNumber(neg, SubSeq(s, i0, i1 - 1) \o fracDigits,
                             expVal - Len(fracDigits)),
                  i3)

(***************************************************************************)
(* JSON.parse: strings                                                     *)
(***************************************************************************)
SimpleEscapes == {DQ, BS, "/", "b", "f", "n", "r", "t"}

Unescape(e) ==
  CASE e = "b" -> CharOfCode(8)
    [] e = "f" -> "\f"
    [] e = "n" -> "\n"
    [] e = "r" -> "\r"
    [] e = "t" -> "\t"
    [] OTHER -> e

Hex4(s, i) ==
  ((HexVal(s[i]) * 16 + HexVal(s[i + 1])) * 16 + HexVal(s[i + 2])) * 16
    + HexVal(s[i + 3])

\* The characters after an opening quote, up to the closing one.
RECURSIVE ScanString(_, _, _)
ScanString(s, i, acc) ==
  IF i > Len(s) THEN ParseFail
  ELSE IF s[i] = DQ THEN ParseOk(JStr(acc), i + 1)
  ELSE IF s[i] = BS THEN
    IF i + 1 > Len(s) THEN ParseFail
    ELSE IF s[i + 1] \in SimpleEscapes
         THEN ScanString(s, i + 2, Append(acc, Unescape(s[i + 1])))
    ELSE IF /\ s[i + 1] = "u"
            /\ i + 5 <= Len(s)
            /\ \A k \in (i + 2)..(i + 5) : s[k] \in HexDigits
         THEN ScanString(s, i + 6, Append(acc, CharOfCode(Hex4(s, i + 2))))
    ELSE ParseFail
  ELSE IF s[i] \in ControlChars THEN ParseFail
  ELSE ScanString(s, i + 1, Append(acc, s[i]))

RECURSIVE SkipWhite(_, _)
SkipWhite(s, i) ==
  IF i <= Len(s) /\ s[i] \in JsonWhite THEN SkipWhite(s, i + 1) ELSE i

\* Whether the characters of lit stand at position i.
Matches(s, i, lit) ==
  /\ i + Len(lit) - 1 <= Len(s)
  /\ SubSeq(s, i, i + Len(lit) - 1) = lit

(***************************************************************************)
(* JSON.parse: object property order.  CreateDataProperty on a key the     *)
(* object has keeps its place and replaces its value; own keys enumerate   *)
(* array indices first, ascending, then the other keys as first inserted.  *)
(***************************************************************************)
\* 2^32 - 2, the largest array index.
MaxIndexDigits == <<"4", "2", "9", "4", "9", "6", "7", "2", "9", "4">>

IsArrayIndex(k) ==
  /\ k # <<>>
  /\ \A i \in 1..Len(k) : k[i] \in Digits
  /\ (Len(k) > 1 => k[1] # "0")
  /\ \/ Len(k) < Len(MaxIndexDigits)
     \/ Len(k) = Len(MaxIndexDigits) /\ ~DigitsGreater(k, MaxIndexDigits)

\* Array index a is numerically below array index b.
IndexLess(a, b) ==
  \/ Len(a) < Len(b)
  \/ Len(a) = Len(b) /\ DigitsGreater(b, a)

\* Members ms with key k set to value v.
RECURSIVE SetMember(_, _, _)
SetMember(ms, k, v) ==
  IF ms = <<>> THEN <<<<k, v>>>>
  ELSE IF Head(ms)[1] = k THEN <<<<k, v>>>> \o Tail(ms)
  ELSE IF IsArrayIndex(k)
          /\ (~IsArrayIndex(Head(ms)[1]) \/ IndexLess(k, Head(ms)[1]))
       THEN <<<<k, v>>>> \o ms
  ELSE <<Head(ms)>> \o SetMember(Tail(ms), k, v)

(***************************************************************************)
(* JSON.parse: values                                                      *)
(***************************************************************************)
\* Each step takes what the step before it produced as a parameter.
RECURSIVE ParseValue(_, _)
RECURSIVE ParseElements(_, _, _)
RECURSIVE ParseMembers(_, _, _)

\* After an element, at position j: "," and more elements, or "]".
ElementEnd(s, acc, j) ==
  IF j > Len(s) THEN ParseFail
  ELSE IF s[j] = "," THEN ParseElements(s, j + 1, acc)
  ELSE IF s[j] = "]" THEN ParseOk(JArr(acc), j + 1)
  ELSE ParseFail

\* r is the parse of an element.
AfterElement(s, acc, r) ==
  IF r.ok THEN ElementEnd(s, Append(acc, r.val), SkipWhite(s, r.pos))
  ELSE ParseFail

\* The elements of an array from position i on, acc being those before.
ParseElements(s, i, acc) ==
  AfterElement(s, acc, ParseValue(s, SkipWhite(s, i)))

\* After a member, at position j: "," and more members, or "}".
MemberEnd(s, acc, j) ==
  IF j > Len(s) THEN ParseFail
  ELSE IF s[j] = "," THEN ParseMembers(s, j + 1, acc)
  ELSE IF s[j] = "}" THEN ParseOk(JObj(acc), j + 1)
  ELSE ParseFail

\* r is the parse of the value of the member named name.
AfterMember(s, acc, name, r) ==
  IF r.ok THEN MemberEnd(s, SetMember(acc, name, r.val), SkipWhite(s, r.pos))
  ELSE ParseFail

\* After a member's name, at position c: ":" and the value.
MemberValue(s, acc, name, c) ==
  IF c <= Len(s) /\ s[c] = ":"
  THEN AfterMember(s, acc, name, ParseValue(s, SkipWhite(s, c + 1)))
  ELSE ParseFail

\* key is the parse of a member's name.
AfterKey(s, acc, key) ==
  IF key.ok THEN MemberValue(s, acc, key.val.v, SkipWhite(s, key.pos))
  ELSE ParseFail

\* A member's name starts at position k.
MemberKey(s, acc, k) ==
  IF k <= Len(s) /\ s[k] = DQ
  THEN AfterKey(s, acc, ScanString(s, k + 1, <<>>))
  ELSE ParseFail

\* The members of an object from position i on, acc being those before.
ParseMembers(s, i, acc) == MemberKey(s, acc, SkipWhite(s, i))

\* After "{", at position j.
ObjectBody(s, j) ==
  IF j <= Len(s) /\ s[j] = "}" THEN ParseOk(JObj(<<>>), j + 1)
  ELSE ParseMembers(s, j, <<>>)

\* After "[", at position j.
ArrayBody(s, j) ==
  IF j <= Len(s) /\ s[j] = "]" THEN ParseOk(JArr(<<>>), j + 1)
  ELSE ParseElements(s, j, <<>>)

\* The value that starts at position i (white space already skipped).
ParseValue(s, i) ==
  IF i > Len(s) THEN ParseFail
  ELSE IF s[i] = "{" THEN ObjectBody(s, SkipWhite(s, i + 1))
  ELSE IF s[i] = "[" THEN ArrayBody(s, SkipWhite(s, i + 1))
  ELSE IF s[i] = DQ THEN ScanString(s, i + 1, <<>>)
  ELSE IF s[i] = "-" \/ s[i] \in Digits THEN ParseNumber(s, i)
  ELSE IF Matches(s, i, <<"t", "r", "u", "e">>) THEN ParseOk(JBool(TRUE), i + 4)
  ELSE IF Matches(s, i, <<"f", "a", "l", "s", "e">>)
       THEN ParseOk(JBool(FALSE), i + 5)
  ELSE IF Matches(s, i, <<"n", "u", "l", "l">>) THEN ParseOk(JNull, i + 4)
  ELSE ParseFail

\* r is the parse of the first value of text: nothing but white space may
\* follow it.
WholeText(text, r) ==
  IF r.ok /\ SkipWhite(text, r.pos) > Len(text)
  THEN [ok |-> TRUE, val |-> r.val]
  ELSE [ok |-> FALSE, val |-> JNull]

\* JSON.parse(text): [ok, val]; not ok is a thrown SyntaxError.
JSONParse(text) == WholeText(text, ParseValue(text, SkipWhite(text, 1)))

(***************************************************************************)
(* JSON.stringify(value), no indentation                                   *)
(***************************************************************************)
RECURSIVE IntToChars(_)
IntToChars(i) ==
  IF i < 10 THEN <<DigitSeq[i + 1]>>
  ELSE Append(IntToChars(i \div 10), DigitSeq[(i % 10) + 1])

Zeros(k) == [i \in 1..k |-> "0"]

\* Number::toString of a finite non-zero double with digits d, exponent n.
\* Decimal notation is used for 1e-7 < value < 1e21.
MaxFixedExp == 21
MinFixedExp == -6

FiniteToChars(d, n) ==
  LET k == Len(d)
      e == n - 1
  IN IF k <= n /\ n <= MaxFixedExp THEN d \o Zeros(n - k)
     ELSE IF 0 < n /\ n <= MaxFixedExp
          THEN SubSeq(d, 1, n) \o <<".">> \o SubSeq(d, n + 1, k)
     ELSE IF MinFixedExp < n /\ n <= 0
          THEN <<"0", ".">> \o Zeros(0 - n) \o d
     ELSE <<d[1]>>
          \o (IF k > 1 THEN <<".">> \o SubSeq(d, 2, k) ELSE <<>>)
          \o <<"e">>
          \o (IF e >= 0 THEN <<"+">> \o IntToChars(e)
              ELSE <<"-">> \o IntToChars(0 - e))

\* A number as JSON.stringify writes it: a non-finite number is null, and
\* negative zero is 0.
NumToChars(x) ==
  IF x.inf THEN <<"n", "u", "l", "l">>
  ELSE IF x.d = <<>> THEN <<"0">>
  ELSE (IF x.neg THEN <<"-">> ELSE <<>>) \o FiniteToChars(x.d, x.n)

Hex4Chars(c) ==
  <<HexLower[(c \div 4096) + 1], HexLower[((c \div 256) % 16) + 1],
    HexLower[((c \div 16) % 16) + 1], HexLower[(c % 16) + 1]>>

IsHighSurrogate(ch) == IsSurrogate(ch) /\ SurrogateCode(ch) < 56320
IsLowSurrogate(ch) == IsSurrogate(ch) /\ SurrogateCode(ch) >= 56320

\* QuoteJSONString from position i on: the short escapes, \u00xx for the
\* other control characters, \udxxx for a lone surrogate, the rest as is.
RECURSIVE QuoteFrom(_, _)
QuoteFrom(s, i) ==
  IF i > Len(s) THEN <<>>
  ELSE LET ch == s[i] IN
    IF ch = DQ THEN <<BS, DQ>> \o QuoteFrom(s, i + 1)
    ELSE IF ch = BS THEN <<BS, BS>> \o QuoteFrom(s, i + 1)
    ELSE IF ch = "\n" THEN <<BS, "n">> \o QuoteFrom(s, i + 1)
    ELSE IF ch = "\t" THEN <<BS, "t">> \o QuoteFrom(s, i + 1)
    ELSE IF ch = "\r" THEN <<BS, "r">> \o QuoteFrom(s, i + 1)
    ELSE IF ch = "\f" THEN <<BS, "f">> \o QuoteFrom(s, i + 1)
    ELSE IF ch = CharOfCode(8) THEN <<BS, "b">> \o QuoteFrom(s, i + 1)
    ELSE IF ch \in ControlChars
         THEN <<BS, "u">> \o Hex4Chars(ControlCode(ch)) \o QuoteFrom(s, i + 1)
    ELSE IF IsHighSurrogate(ch) /\ i < Len(s) /\ IsLowSurrogate(s[i + 1])
         THEN <<ch, s[i + 1]>> \o QuoteFrom(s, i + 2)
    ELSE IF IsSurrogate(ch)
         THEN <<BS, "u">> \o Hex4Chars(SurrogateCode(ch)) \o QuoteFrom(s, i + 1)
    ELSE <<ch>> \o QuoteFrom(s, i + 1)

Quote(s) == <<DQ>> \o QuoteFrom(s, 1) \o <<DQ>>

RECURSIVE JSONStringify(_)
RECURSIVE JoinValues(_, _)
RECURSIVE JoinMembers(_, _)

JoinValues(xs, i) ==
  IF i > Len(xs) THEN <<>>
  ELSE (IF i > 1 THEN <<",">> ELSE <<>>)
       \o JSONStringify(xs[i]) \o JoinValues(xs, i + 1)

JoinMembers(ms, i) ==
  IF i > Len(ms) THEN <<>>
  ELSE (IF i > 1 THEN <<",">> ELSE <<>>)
       \o Quote(ms[i][1]) \o <<":">> \o JSONStringify(ms[i][2])
       \o JoinMembers(ms, i + 1)

JSONStringify(val) ==
  CASE val.t = "null" -> <<"n", "u", "l", "l">>
    [] val.t = "bool" -> IF val.v THEN <<"t", "r", "u", "e">>
                         ELSE <<"f", "a", "l", "s", "e">>
    [] val.t = "num" -> NumToChars(val.v)
    [] val.t = "str" -> Quote(val.v)
    [] val.t = "arr" -> <<"[">> \o JoinValues(val.v, 1) \o <<"]">>
    [] val.t = "obj" -> <<"{">> \o JoinMembers(val.v, 1) \o <<"}">>

(***************************************************************************)
(* The run: its inputs                                                     *)
(***************************************************************************)
\* Longest text enumerated exhaustively as subprocess output.
MaxLen == 3

\* Characters of the exhaustively enumerated outputs.
Alphabet == {DQ, BS, "[", "]", "9", "e", " "}

Texts(n) == UNION {[1..k -> Alphabet] : k \in 0..n}

\* The matrix as the tool is expected to print it.
SingleEncoded ==
  <<"{", "\"", "i", "n", "c", "l", "u", "d", "e", "\"", ":", "[", "]",
    "}">>

\* The same matrix encoded once more, as a JSON string, with the line end a
\* command prints.
DoubleEncoded ==
  <<"\"", "{", "\\", "\"", "i", "n", "c", "l", "u", "d", "e", "\\",
    "\"", ":", "[", "]", "}", "\"", "\n">>

\* An empty array encoded as a JSON string twice.
TripleEncoded ==
  <<"\"", "\\", "\"", "[", "]", "\\", "\"", "\"">>

NotJson ==
  <<"n", "o", "t", " ", "j", "s", "o", "n">>

EndToEnd ==
  <<"{", "\"", "i", "n", "c", "l", "u", "d", "e", "\"", ":", "[", "{",
    "\"", "s", "e", "r", "v", "i", "c", "e", "\"", ":", "\"", "a", "p",
    "i", "\"", ",", "\"", "t", "a", "g", "\"", ":", "\"", "v", "1", ".",
    "2", ".", "3", "\"", "}", "]", "}", "\n">>

\* A repeated key and an array-index key.
Reordered ==
  <<"{", "\"", "b", "\"", ":", "1", ",", "\"", "1", "\"", ":", "2", ",",
    "\"", "b", "\"", ":", "3", "}">>

\* A number literal beyond the range of a double.
Overflow ==
  <<"1", "e", "9", "9", "9">>

NegativeZero ==
  <<"-", "0">>

Fraction ==
  <<"1", ".", "5", "0", "e", "+", "2">>

NullLiteral ==
  <<"n", "u", "l", "l">>

TrueLiteral ==
  <<"t", "r", "u", "e">>

BlankLines ==
  <<" ", "\n">>

Samples ==
  {SingleEncoded, DoubleEncoded, TripleEncoded, NotJson,
   EndToEnd, Reordered, Overflow, NegativeZero,
   Fraction, NullLiteral, TrueLiteral, BlankLines}

\* What the subprocess may write to its standard output.
Stdouts == Samples \cup Texts(MaxLen)

\* Exit statuses of the subprocess.
ExitCodes == {0, 1}

\* What core.getInput returns for each input; "" is an input not given.
InputSets ==
  [overlay : {"", "production"},
   branch : {"", "release"},
   tag : {"", "v1.2.3"},
   githubToken : {"", "tok"},
   repoPath : {"", "services"}]

\* The paths that exist when the run starts; the working directory always
\* does.
FileSystems == {{"."}, {".", "services"}}

VARIABLES
  inputs,         \* the action's inputs
  fsPaths,        \* the paths that exist
  pc,             \* where run() is
  error,          \* the error thrown inside the try block, if any
  cmd,            \* the command line, as its words
  launched,       \* the subprocesses started by exec.exec
  exitCode,       \* exit status of the subprocess
  stdout,         \* what the stdout listener accumulated
  decodes,        \* calls of JSON.parse so far
  matrixObject,   \* the decoded matrix
  matrixJson,     \* its serialization
  outputs,        \* action outputs set by core.setOutput
  failed,         \* messages given to core.setFailed
  summaryBuffer,  \* core.summary's buffer
  summaryFile,    \* what core.summary wrote to the job summary
  writeCalls,     \* calls of core.summary.write
  phases          \* the stages of the run entered so far

vars ==
  <<inputs, fsPaths, pc, error, cmd, launched, exitCode, stdout, decodes,
    matrixObject, matrixJson, outputs, failed, summaryBuffer, summaryFile,
    writeCalls, phases>>

(***************************************************************************)
(* Input Resolver and Command Builder                                      *)
(***************************************************************************)
Overlay == inputs.overlay
Branch == IF inputs.branch = "" THEN "main" ELSE inputs.branch
Tag == inputs.tag
GithubToken == inputs.githubToken
RepoPath == IF inputs.repoPath = "" THEN "." ELSE inputs.repoPath

NoError == [msg |-> "", arg |-> <<>>]
Err(msg, arg) == [msg |-> msg, arg |-> arg]

\* ValidationError without its last check.
ValidationErrorNoToken ==
  IF RepoPath \notin fsPaths
  THEN Err("Repository path not found: ", <<RepoPath>>)
  ELSE IF Tag = "" THEN Err("tag input is required", <<>>)
  ELSE NoError

\* The error the validation throws, NoError when the inputs pass.
ValidationError ==
  IF RepoPath \notin fsPaths
  THEN Err("Repository path not found: ", <<RepoPath>>)
  ELSE IF Tag = "" THEN Err("tag input is required", <<>>)
  ELSE IF GithubToken = "" THEN Err("github-token input is required", <<>>)
  ELSE NoError

\* BuildCommand appending the filter whether or not there is an overlay.
BuildCommandAlwaysFilter(branch, tag, overlay) ==
  <<"npx", "--yes", "workflow-utils", "get-services-env-config",
    "-dir", ".", "-outputFormat", "github-matrix",
    "-branch", branch, "-actionTag", tag, "-envFilter", overlay>>

\* The command line handed to bash -c, as the words its spaces separate.
BuildCommand(branch, tag, overlay) ==
  <<"npx", "--yes", "workflow-utils", "get-services-env-config",
    "-dir", ".", "-outputFormat", "github-matrix",
    "-branch", branch, "-actionTag", tag>>
  \o (IF overlay # "" THEN <<"-envFilter", overlay>> ELSE <<>>)

(***************************************************************************)
(* Process Invoker and Result Normalizer                                   *)
(***************************************************************************)
\* exec.exec rejects when the exit status is not zero.
ExecError(code) ==
  Err("The process 'bash' failed with exit code ", IntToChars(code))

\* IsEmptyOutput without the trim.
IsEmptyOutputNoTrim(out) == out = <<>>

\* !stdout.trim()
IsEmptyOutput(out) == Trim(out) = <<>>

\* The second JSON.parse, of the string the first one produced.
SecondDecode(second) ==
  [ok |-> second.ok, val |-> second.val, decodes |-> 2]

\* Unwrap decoding for as long as the result is a string.
RECURSIVE UnwrapRepeatedly(_)
UnwrapRepeatedly(parsed) ==
  IF ~parsed.ok THEN [ok |-> FALSE, val |-> JNull, decodes |-> 1]
  ELSE IF parsed.val.t = "str"
       THEN SecondDecode(UnwrapRepeatedly(JSONParse(parsed.val.v)))
  ELSE [ok |-> TRUE, val |-> parsed.val, decodes |-> 1]

\* parsed is the result of the first JSON.parse: a string is decoded once
\* more, anything else is the matrix.
Unwrap(parsed) ==
  IF ~parsed.ok THEN [ok |-> FALSE, val |-> JNull, decodes |-> 1]
  ELSE IF parsed.val.t = "str" THEN SecondDecode(JSONParse(parsed.val.v))
  ELSE [ok |-> TRUE, val |-> parsed.val, decodes |-> 1]

\* The try block around JSON.parse: [ok, val, decodes], not ok when either
\* JSON.parse threw; decodes counts the calls made.
NormalizeOutput(out) == Unwrap(JSONParse(Trim(out)))

\* Serialize writing the serialization as a JSON string.
SerializeTwice(val) == Quote(JSONStringify(val))

\* const matrixJson = JSON.stringify(matrixObject)
Serialize(val) == JSONStringify(val)

ParseError(out) ==
  Err("Failed to parse matrix JSON: ", <<"SyntaxError", "\nOutput: ">> \o out)

(***************************************************************************)
(* The steps of run()                                                      *)
(***************************************************************************)
Init ==
  /\ inputs \in InputSets
  /\ fsPaths \in FileSystems
  /\ pc = "Validating"
  /\ error = NoError
  /\ cmd = <<>>
  /\ launched = <<>>
  /\ exitCode = 0
  /\ stdout = <<>>
  /\ decodes = 0
  /\ matrixObject = JNull
  /\ matrixJson = <<>>
  /\ outputs = <<>>
  /\ failed = <<>>
  /\ summaryBuffer = <<>>
  /\ summaryFile = <<>>
  /\ writeCalls = 0
  /\ phases = <<"Validating">>

\* A throw inside the try block: control goes to the catch block.
Throw(e) ==
  /\ error' = e
  /\ pc' = "SetFailed"
  /\ phases' = Append(phases, "ReportingFailure")

\* Reading and validating the inputs, then building the command.
Validate ==
  /\ pc = "Validating"
  /\ IF ValidationError # NoError
     THEN /\ Throw(ValidationError)
          /\ UNCHANGED cmd
     ELSE /\ cmd' = BuildCommand(Branch, Tag, Overlay)
          /\ pc' = "Invoking"
          /\ phases' = Append(phases, "Invoking")
          /\ UNCHANGED error
  /\ UNCHANGED <<inputs, fsPaths, launched, exitCode, stdout, decodes,
                 matrixObject, matrixJson, outputs, failed, summaryBuffer,
                 summaryFile, writeCalls>>

\* await exec.exec('bash', ['-c', cmd], options) and the check of its output.
Invoke ==
  /\ pc = "Invoking"
  /\ \E code \in ExitCodes, out \in Stdouts :
       /\ launched' = Append(launched,
            [cmd |-> cmd, cwd |-> RepoPath, token |-> GithubToken])
       /\ exitCode' = code
       /\ stdout' = out
       /\ IF code # 0 THEN Throw(ExecError(code))
          ELSE IF IsEmptyOutput(out)
               THEN Throw(Err("Failed to generate matrix - empty result", <<>>))
          ELSE /\ pc' = "Normalizing"
               /\ phases' = Append(phases, "Normalizing")
               /\ UNCHANGED error
  /\ UNCHANGED <<inputs, fsPaths, cmd, decodes, matrixObject, matrixJson,
                 outputs, failed, summaryBuffer, summaryFile, writeCalls>>

\* r is what the try block around JSON.parse produced.
Normalized(r) ==
  /\ decodes' = decodes + r.decodes
  /\ IF r.ok
     THEN /\ matrixObject' = r.val
          /\ matrixJson' = Serialize(r.val)
          /\ pc' = "SetOutput"
          /\ phases' = Append(phases, "ReportingSuccess")
          /\ UNCHANGED error
     ELSE /\ Throw(ParseError(stdout))
          /\ UNCHANGED <<matrixObject, matrixJson>>

\* Decoding the output and serializing the decoded value.
Normalize ==
  /\ pc = "Normalizing"
  /\ Normalized(NormalizeOutput(stdout))
  /\ UNCHANGED <<inputs, fsPaths, cmd, launched, exitCode, stdout, outputs,
                 failed, summaryBuffer, summaryFile, writeCalls>>

\* The outputs with name set to value.
WithOutput(name, value) ==
  [n \in DOMAIN outputs \cup {name} |->
     IF n = name THEN value ELSE outputs[n]]

\* core.setOutput('matrix', matrixJson); it throws when the runner's output
\* file cannot be written.
SetOutput ==
  /\ pc = "SetOutput"
  /\ \E ok \in BOOLEAN :
       IF ok
       THEN /\ outputs' = WithOutput("matrix", matrixJson)
            /\ pc' = "WriteSuccess"
            /\ UNCHANGED <<error, phases>>
       ELSE /\ Throw(Err("Unable to write output", <<>>))
            /\ UNCHANGED outputs
  /\ UNCHANGED <<inputs, fsPaths, cmd, launched, exitCode, stdout, decodes,
                 matrixObject, matrixJson, failed, summaryBuffer,
                 summaryFile, writeCalls>>

\* core.summary ... .write(): the buffer is written and emptied, or the
\* write rejects (no summary file, or it cannot be written) and the buffer
\* stays.
WriteSummary(report, ok) ==
  /\ writeCalls' = writeCalls + 1
  /\ IF ok
     THEN /\ summaryFile' = Append(summaryFile, Append(summaryBuffer, report))
          /\ summaryBuffer' = <<>>
     ELSE /\ summaryBuffer' = Append(summaryBuffer, report)
          /\ UNCHANGED summaryFile

\* The summary of a successful run.
WriteSuccess ==
  /\ pc = "WriteSuccess"
  /\ \E ok \in BOOLEAN :
       /\ WriteSummary([status |-> "success", text |-> matrixJson], ok)
       /\ IF ok
          THEN /\ pc' = "Done"
               /\ UNCHANGED <<error, phases>>
          ELSE Throw(Err("Unable to write summary", <<>>))
  /\ UNCHANGED <<inputs, fsPaths, cmd, launched, exitCode, stdout, decodes,
                 matrixObject, matrixJson, outputs, failed>>

\* The catch block: core.setFailed(error.message).
SetFailed ==
  /\ pc = "SetFailed"
  /\ failed' = Append(failed, error)
  /\ pc' = "WriteFailure"
  /\ UNCHANGED <<inputs, fsPaths, error, cmd, launched, exitCode, stdout,
                 decodes, matrixObject, matrixJson, outputs, summaryBuffer,
                 summaryFile, writeCalls, phases>>

\* The catch block: the error summary.  A rejected write is not caught: the
\* promise run() returned rejects.
WriteFailure ==
  /\ pc = "WriteFailure"
  /\ \E ok \in BOOLEAN :
       /\ WriteSummary([status |-> "failure", text |-> error.arg], ok)
       /\ pc' = IF ok THEN "Done" ELSE "Rejected"
  /\ UNCHANGED <<inputs, fsPaths, error, cmd, launched, exitCode, stdout,
                 decodes, matrixObject, matrixJson, outputs, failed, phases>>

Next ==
  \/ Validate
  \/ Invoke
  \/ Normalize
  \/ SetOutput
  \/ WriteSuccess
  \/ SetFailed
  \/ WriteFailure

Spec == Init /\ [][Next]_vars

\* run() has returned, or its promise has rejected.
Terminated == pc \in {"Done", "Rejected"}

(***************************************************************************)
(* Properties                                                              *)
(***************************************************************************)
FailurePcs == {"SetFailed", "WriteFailure", "Done", "Rejected"}

EmptyResultError == Err("Failed to generate matrix - empty result", <<>>)

\* The repo-path does not exist, or the tag or the token is missing.
InvalidConfig ==
  \/ (IF inputs.repoPath = "" THEN "." ELSE inputs.repoPath) \notin fsPaths
  \/ inputs.tag = ""
  \/ inputs.githubToken = ""

\* C1: a run whose repo-path does not exist, or whose tag or github-token is
\* empty, never launches the subprocess, goes from Validating straight to
\* failure reporting, and has emitted the failure signal when it ends.
C1_FailFastValidation ==
  InvalidConfig =>
    /\ launched = <<>>
    /\ cmd = <<>>
    /\ phases \in {<<"Validating">>, <<"Validating", "ReportingFailure">>}
    /\ (Terminated => Len(failed) = 1 /\ failed[1].msg # "")

\* A run with only the token missing has ended, reported as failed, without
\* a subprocess.
C1_Witness ==
  /\ pc = "Done"
  /\ inputs.githubToken = ""
  /\ inputs.tag # ""
  /\ RepoPath \in fsPaths
  /\ failed = <<Err("github-token input is required", <<>>)>>
  /\ launched = <<>>

\* C2: when the run has ended, core.summary.write has been called exactly
\* once.
C2_ExactlyOneWrite == Terminated => writeCalls = 1

\* C3: the promise run() returns never rejects.
C3_NeverRaises == pc # "Rejected"

\* C4: after a subprocess that exited non-zero, or exited zero with output
\* that is empty once trimmed, the run is in its failure path, has emitted
\* the failure signal once past setFailed, has not set the matrix output,
\* has called JSON.parse zero times and has launched one subprocess.
C4_SubprocessFailureTerminal ==
  (launched # <<>> /\ (exitCode # 0 \/ Trim(stdout) = <<>>)) =>
    /\ pc \in FailurePcs
    /\ (pc # "SetFailed" => Len(failed) = 1)
    /\ error \in {ExecError(exitCode), EmptyResultError}
    /\ "matrix" \notin DOMAIN outputs
    /\ decodes = 0
    /\ Len(launched) = 1

\* A subprocess that exited zero and printed only white space: the run has
\* ended with the empty-result failure.
C4_Witness ==
  /\ pc = "Done"
  /\ exitCode = 0
  /\ stdout = BlankLines
  /\ failed = <<EmptyResultError>>
  /\ decodes = 0
  /\ Len(launched) = 1

\* The reference of C5 for a value decoded from the trimmed output: the
\* matrix is value, serialized once, reached with n calls of JSON.parse.
C5_Uses(value, n) ==
  /\ decodes = n
  /\ pc \notin FailurePcs \/ error.msg # "Failed to parse matrix JSON: "
  /\ matrixObject = value
  /\ matrixJson = JSONStringify(value)
  /\ ("matrix" \in DOMAIN outputs => outputs["matrix"] = JSONStringify(value))

\* The reference of C5 for an output that does not decode, after n calls.
C5_Fails(n) ==
  /\ decodes = n
  /\ pc \in FailurePcs
  /\ error = ParseError(stdout)
  /\ "matrix" \notin DOMAIN outputs

\* C5: once the normalizer has run, its result is that of the reference:
\* decode the trimmed output once; a failure is a parse error; a string is
\* decoded exactly once more (a failure is a parse error) and the result is
\* used as it is, string or not; any other value is used with no second
\* decode; the matrix output is the serialization of the value used.  The
\* single-encoded {"include":[]} and its double encoding both give
\* {"include":[]}.
C5_NormalizerReference ==
  decodes > 0 =>
    /\ IF ~JSONParse(Trim(stdout)).ok THEN C5_Fails(1)
       ELSE IF JSONParse(Trim(stdout)).val.t # "str"
            THEN C5_Uses(JSONParse(Trim(stdout)).val, 1)
       ELSE IF ~JSONParse(JSONParse(Trim(stdout)).val.v).ok THEN C5_Fails(2)
       ELSE C5_Uses(JSONParse(JSONParse(Trim(stdout)).val.v).val, 2)
    /\ (stdout \in {SingleEncoded, DoubleEncoded} /\ pc \notin FailurePcs
          => matrixJson = SingleEncoded)

\* The double-encoded matrix has been published, single-encoded, after two
\* decodes.
C5_Witness ==
  /\ pc = "Done"
  /\ stdout = DoubleEncoded
  /\ decodes = 2
  /\ "matrix" \in DOMAIN outputs
  /\ outputs["matrix"] = SingleEncoded
  /\ failed = <<>>

FixedPrefix ==
  <<"npx", "--yes", "workflow-utils", "get-services-env-config",
    "-dir", ".", "-outputFormat", "github-matrix">>

\* C6: for a validated config the command is the fixed prefix, then the
\* resolved branch and the tag, in that order; -envFilter <overlay> ends it
\* exactly when the overlay is given, and without an overlay no word of the
\* command is -envFilter.  It is the command every subprocess is launched
\* with.
C6_CommandBuilder ==
  (pc # "Validating" /\ ~InvalidConfig) =>
    /\ SubSeq(cmd, 1, 8) = FixedPrefix
    /\ SubSeq(cmd, 9, 12)
         = <<"-branch", (IF inputs.branch = "" THEN "main" ELSE inputs.branch),
             "-actionTag", inputs.tag>>
    /\ (inputs.overlay # ""
          => Len(cmd) = 14 /\ SubSeq(cmd, 13, 14) = <<"-envFilter", inputs.overlay>>)
    /\ (inputs.overlay = ""
          => Len(cmd) = 12 /\ \A i \in 1..Len(cmd) : cmd[i] # "-envFilter")
    /\ \A i \in 1..Len(launched) : launched[i].cmd = cmd

\* A run with no overlay and no branch launched the twelve-word command.
C6_Witness ==
  /\ Len(launched) = 1
  /\ inputs.overlay = ""
  /\ inputs.branch = ""
  /\ Len(launched[1].cmd) = 12
  /\ launched[1].cmd[10] = "main"
  /\ launched[1].cmd[12] = "v1.2.3"

\* The ways through the stages that C7 allows.
AllowedPaths ==
  {<<"Validating">>,
   <<"Validating", "Invoking">>,
   <<"Validating", "Invoking", "Normalizing">>,
   <<"Validating", "Invoking", "Normalizing", "ReportingSuccess">>,
   <<"Validating", "ReportingFailure">>,
   <<"Validating", "Invoking", "ReportingFailure">>,
   <<"Validating", "Invoking", "Normalizing", "ReportingFailure">>}

\* C7: the stages entered are Validating, Invoking, Normalizing,
\* Reporting(Success) in that order, or a prefix of the first three followed
\* by Reporting(Failure), whose failure signal carries the error that caused
\* it; nothing follows a Reporting stage, and at most one subprocess is
\* launched.
C7_StateMachine ==
  /\ phases \in AllowedPaths
  /\ Len(launched) <= 1
  /\ (failed # <<>> => failed = <<error>>)

\* Strict equality of decoded values: the two zeros are equal.
RECURSIVE SameValue(_, _)
SameValue(a, b) ==
  /\ a.t = b.t
  /\ CASE a.t = "num" ->
            /\ a.v.inf = b.v.inf
            /\ a.v.d = b.v.d
            /\ a.v.n = b.v.n
            /\ (a.v.inf \/ a.v.d # <<>> => a.v.neg = b.v.neg)
       [] a.t = "arr" ->
            /\ Len(a.v) = Len(b.v)
            /\ \A i \in 1..Len(a.v) : SameValue(a.v[i], b.v[i])
       [] a.t = "obj" ->
            /\ Len(a.v) = Len(b.v)
            /\ \A i \in 1..Len(a.v) :
                 a.v[i][1] = b.v[i][1] /\ SameValue(a.v[i][2], b.v[i][2])
       [] OTHER -> a.v = b.v

\* r is the normalizer's result on the canonical output.
C8_SameAgain(r) ==
  /\ r.ok
  /\ r.decodes = 1
  /\ SameValue(r.val, matrixObject)
  /\ JSONStringify(r.val) = matrixJson

\* The original statement of C8: when normalization succeeded with a value
\* that is not a string, normalizing its serialization again gives the same
\* value and the same serialization, with one decode.
C8_NormalizerIdempotent ==
  (matrixJson # <<>> /\ matrixObject.t # "str")
    => C8_SameAgain(NormalizeOutput(matrixJson))

\* Whether a value holds a number that is not finite.
RECURSIVE HasNonFinite(_)
HasNonFinite(a) ==
  CASE a.t = "num" -> a.v.inf
    [] a.t = "arr" -> \E i \in 1..Len(a.v) : HasNonFinite(a.v[i])
    [] a.t = "obj" -> \E i \in 1..Len(a.v) : HasNonFinite(a.v[i][2])
    [] OTHER -> FALSE

\* C8, amended: when normalization succeeded with a value that is not a
\* string and holds no number beyond the range of a double, normalizing its
\* serialization again gives the same value (the two zeros being equal) and
\* the same serialization, with one decode.
C8_FiniteIdempotent ==
  (matrixJson # <<>> /\ matrixObject.t # "str" /\ ~HasNonFinite(matrixObject))
    => C8_SameAgain(NormalizeOutput(matrixJson))

\* A run has published a matrix whose serialization differs from what the
\* subprocess printed (a repeated key, an array-index key), and normalizing
\* that serialization gives the matrix again.
C8_Witness ==
  /\ pc = "Done"
  /\ stdout = Reordered
  /\ "matrix" \in DOMAIN outputs
  /\ outputs["matrix"] # stdout
  /\ matrixObject.t = "obj"
  /\ NormalizeOutput(outputs["matrix"]).val = matrixObject

\* C9: a run that ended in success has set the outputs matrix and
\* matrix-json.
C9_DocumentedOutputs ==
  (pc = "Done" /\ failed = <<>>) => {"matrix", "matrix-json"} \subseteq DOMAIN outputs

\* C10: when the run has ended, the matrix output is not set or the failure
\* signal has not been emitted.
C10_SuccessXorFailure ==
  Terminated => ~("matrix" \in DOMAIN outputs /\ failed # <<>>)

=============================================================================
